---- MODULE Spec2Model ----
(***************************************************************************)
(* A model of guides/bert_guide_finetuning.ipynb: the notebook's cells     *)
(* run top to bottom, the label schema, preprocess_function, the data      *)
(* collator, compute_metrics and the Trainer configured by training_args.  *)
(* The library calls are modelled by what the notebook's arguments (and    *)
(* the defaults of the arguments it leaves out) make them do.              *)
(***************************************************************************)
EXTENDS Integers, Sequences, FiniteSets, TLC

(***************************************************************************)
(* Bounds of the model.                                                    *)
(***************************************************************************)
\* the tokenizer's model_max_length, scaled down (ModernBERT: 8192)
ModelMaxLength == 4
\* texts per direct call of preprocess_function / data_collator
MaxBatch == 2
\* examples per direct call of compute_metrics
MaxEval == 3
\* rows of the "train[:10%]" split
MaxTrain == 3
\* rows of the "test" split
MaxTest == 2
\* per_device_train_batch_size = per_device_eval_batch_size, scaled down (16)
BatchSize == 2

\* a text is a sequence of words; a text may be one word longer than fits
MaxTextLen == ModelMaxLength - 1
Words == {1, 2}

(***************************************************************************)
(* Program constants.                                                      *)
(***************************************************************************)
num_labels == 4
num_train_epochs == 2
map_batch_size == 4
\* special token ids of the pretrained tokenizer (abstract values)
PAD_ID == 0
CLS_ID == 1
SEP_ID == 2

Range(f) == {f[x] : x \in DOMAIN f}
Min(a, b) == IF a <= b THEN a ELSE b
SeqsUpTo(S, n) == UNION {[1..k -> S] : k \in 1..n}

(***************************************************************************)
(* The label schema (cell 4).  A dict is a function; the comprehension     *)
(* {v: k for k, v in d.items()} visits the keys in insertion order (here   *)
(* ascending), so of two keys with one value the later one stays.          *)
(***************************************************************************)
Id2LabelDuplicate == (0 :> "World") @@ (1 :> "Sports") @@ (2 :> "Sports") @@ (3 :> "Sci/Tech")
Id2LabelLiteral == (0 :> "World") @@ (1 :> "Sports") @@ (2 :> "Business") @@ (3 :> "Sci/Tech")

InvertDict(d) ==
    [v \in Range(d) |-> CHOOSE k \in DOMAIN d :
        d[k] = v /\ \A j \in DOMAIN d : d[j] = v => j <= k]

(***************************************************************************)
(* The tokenizer call of preprocess_function (cell 6):                     *)
(* tokenizer(examples["text"], truncation=True).  No max_length is given,  *)
(* so the cut is at the tokenizer's model_max_length; no padding argument  *)
(* is given, so nothing is padded.  The special tokens are kept and the    *)
(* words past the window are dropped from the right.                       *)
(***************************************************************************)
WordId(w) == w + SEP_ID

Vocab(text) == [i \in 1..Len(text) |-> WordId(text[i])]

AddSpecialTokens(ids) == <<CLS_ID>> \o ids \o <<SEP_ID>>

TruncateKeepTail(ids, room) ==
    IF Len(ids) <= room THEN ids ELSE SubSeq(ids, Len(ids) - room + 1, Len(ids))
Truncate(ids, room) ==
    IF Len(ids) <= room THEN ids ELSE SubSeq(ids, 1, room)

Encode(text) ==
    LET ids == AddSpecialTokens(Truncate(Vocab(text), ModelMaxLength - 2))
    IN  [input_ids |-> ids, attention_mask |-> [i \in 1..Len(ids) |-> 1]]

\* examples: [text |-> a sequence of texts]; the result has one entry per text
preprocess_function(examples) ==
    LET enc == [i \in 1..Len(examples.text) |-> Encode(examples.text[i])]
    IN  [input_ids      |-> [i \in 1..Len(enc) |-> enc[i].input_ids],
         attention_mask |-> [i \in 1..Len(enc) |-> enc[i].attention_mask]]

(***************************************************************************)
(* DataCollatorWithPadding(tokenizer=tokenizer) (cell 8): padding is left  *)
(* at its default, the longest sequence of the batch; the tokenizer pads   *)
(* on the right with its pad token and extends the mask with zeros.        *)
(***************************************************************************)
Longest(features) ==
    CHOOSE m \in {Len(features[i].input_ids) : i \in 1..Len(features)} :
        \A i \in 1..Len(features) : Len(features[i].input_ids) <= m

Fill(n, x) == [i \in 1..n |-> x]

PadTo(ids, n, x) == ids \o Fill(n - Len(ids), x)

data_collator_fixed_length(features) ==
    [input_ids      |-> [i \in 1..Len(features) |->
                            PadTo(features[i].input_ids, ModelMaxLength, PAD_ID)],
     attention_mask |-> [i \in 1..Len(features) |->
                            PadTo(features[i].attention_mask, ModelMaxLength, 0)],
     labels         |-> [i \in 1..Len(features) |-> features[i].label]]
data_collator(features) ==
    [input_ids      |-> [i \in 1..Len(features) |->
                            PadTo(features[i].input_ids, Longest(features), PAD_ID)],
     attention_mask |-> [i \in 1..Len(features) |->
                            PadTo(features[i].attention_mask, Longest(features), 0)],
     labels         |-> [i \in 1..Len(features) |-> features[i].label]]

(***************************************************************************)
(* compute_metrics (cell 7).  np.argmax(axis=1) gives, per row, the first  *)
(* index of its maximum.  f1.compute is called without average, which is   *)
(* then "binary" with pos_label 1: the library raises ValueError when the  *)
(* labels and predictions hold more than two classes, or two classes       *)
(* without class 1; otherwise F1 of class 1, 0 when it is undefined.       *)
(* F1 = 2TP / (2TP + FP + FN) is kept as the pair <<2TP, 2TP + FP + FN>>.  *)
(***************************************************************************)
ArgMax(row) ==
    (CHOOSE i \in 1..Len(row) :
        /\ \A j \in 1..Len(row) : row[j] <= row[i]
        /\ \A j \in 1..(i - 1) : row[j] < row[i]) - 1

Count(S) == Cardinality(S)

F1Binary(predictions, references, pos_label) ==
    LET idx == 1..Len(references)
        tp  == Count({i \in idx : predictions[i] = pos_label /\ references[i] = pos_label})
        fp  == Count({i \in idx : predictions[i] = pos_label /\ references[i] # pos_label})
        fn  == Count({i \in idx : predictions[i] # pos_label /\ references[i] = pos_label})
    IN  IF 2 * tp + fp + fn = 0 THEN <<0, 1>> ELSE <<2 * tp, 2 * tp + fp + fn>>

F1Compute(predictions, references) ==
    LET present == Range(predictions) \cup Range(references)
    IN  IF Cardinality(present) > 2
        THEN [exc |-> "ValueError", f1 |-> <<0, 1>>]
        ELSE IF Cardinality(present) = 2 /\ 1 \notin present
        THEN [exc |-> "ValueError", f1 |-> <<0, 1>>]
        ELSE [exc |-> "none", f1 |-> F1Binary(predictions, references, 1)]

\* eval_pred: <<scores, labels>>, scores a sequence of rows of class scores
compute_metrics(eval_pred) ==
    LET predictions == [i \in 1..Len(eval_pred[1]) |-> ArgMax(eval_pred[1][i])]
    IN  F1Compute(predictions, eval_pred[2])

(***************************************************************************)
(* The inputs from outside the notebook: the rows of the hub's dataset,    *)
(* the scores the model gives, the loss of an evaluation, the failures     *)
(* of the libraries (network, memory).                                     *)
(***************************************************************************)
LongText == [i \in 1..MaxTextLen |-> 1 + (i % 2)]

TrainExamples == {[text |-> <<1>>, label |-> 0], [text |-> LongText, label |-> 3]}

TestExamples ==
    {[text |-> <<2>>, label |-> 0], [text |-> <<1, 2>>, label |-> 1],
     [text |-> LongText, label |-> 2]}

Texts == UNION {[1..k -> Words] : k \in 0..MaxTextLen}

\* rows of class scores: a clear maximum per class, and a tie of classes 0 and 1
LogitRows ==
    {<<2, 1, 0, 0>>, <<0, 1, 0, 0>>, <<0, 1, 2, 1>>, <<0, 0, 0, 1>>, <<1, 1, 0, 0>>}

\* in the notebook's run the scores are clear one-hot rows of classes 0..2
RunLogitRows == {<<1, 0, 0, 0>>, <<0, 1, 0, 0>>, <<0, 0, 1, 0>>}

\* the mean loss of an evaluation, as the model computes it
Losses == {1, 2}

LibraryErrors == {"ConnectionError", "OutOfMemoryError"}

VARIABLES
    pc,                 \* the statement to run next, "training", "done" or "failed"
    executed,           \* the statements started so far, in order
    defined,            \* the names bound in the kernel
    raised,             \* the exception a library raised ("none": none)
    error,              \* the exception the run ended with ("none": none)
    ag_news_train,
    ag_news_test,
    ag_news,
    id2label,
    label2id,
    model,              \* its configuration and the optimizer step of its weights
    tokenized_ag_news,
    trainer,            \* the Trainer's arguments and its TrainerState
    batch,              \* the batch the collator made last
    call                \* a direct call of one of the notebook's functions

vars == <<pc, executed, defined, raised, error, ag_news_train, ag_news_test, ag_news,
          id2label, label2id, model, tokenized_ag_news, trainer, batch, call>>

data_vars == <<ag_news_train, ag_news_test, ag_news, id2label, label2id, model,
               tokenized_ag_news, trainer, batch>>

(***************************************************************************)
(* The statements of the code cells, top to bottom, the names each reads   *)
(* (a function's body reads its names when it is called) and binds.        *)
(***************************************************************************)
CellsTokenizeFirst ==
    <<"imports", "load_data", "dataset_dict", "labels", "tokenize", "load_model",
      "metric", "collator", "trainer", "train">>
Cells ==
    <<"imports", "load_data", "dataset_dict", "labels", "load_model", "tokenize",
      "metric", "collator", "trainer", "train">>

Position(c) == CHOOSE i \in 1..Len(Cells) : Cells[i] = c

NextCell(c) == IF Position(c) < Len(Cells) THEN Cells[Position(c) + 1] ELSE "done"

Uses(c) ==
    CASE c = "imports"      -> {}
      [] c = "load_data"    -> {"load_dataset"}
      [] c = "dataset_dict" -> {"DatasetDict", "ag_news_train", "ag_news_test"}
      [] c = "labels"       -> {}
      [] c = "load_model"   -> {"ModernBertForSequenceClassification", "AutoTokenizer",
                                "id2label", "label2id"}
      [] c = "tokenize"     -> {"ag_news", "tokenizer"}
      [] c = "metric"       -> {"evaluate"}
      [] c = "collator"     -> {"DataCollatorWithPadding", "tokenizer"}
      [] c = "trainer"      -> {"TrainingArguments", "Trainer", "model", "tokenized_ag_news",
                                "tokenizer", "data_collator", "compute_metrics"}
      [] c = "train"        -> {"trainer", "np", "f1"}

Defs(c) ==
    CASE c = "imports"      -> {"load_dataset", "DatasetDict", "AutoTokenizer",
                                "ModernBertForSequenceClassification", "TrainingArguments",
                                "Trainer", "DataCollatorWithPadding", "evaluate", "np"}
      [] c = "load_data"    -> {"ag_news_train", "ag_news_test"}
      [] c = "dataset_dict" -> {"ag_news"}
      [] c = "labels"       -> {"id2label", "label2id"}
      [] c = "load_model"   -> {"model", "tokenizer"}
      [] c = "tokenize"     -> {"preprocess_function", "tokenized_ag_news"}
      [] c = "metric"       -> {"f1", "compute_metrics"}
      [] c = "collator"     -> {"data_collator"}
      [] c = "trainer"      -> {"training_args", "trainer"}
      [] c = "train"        -> {}

(***************************************************************************)
(* No statement of the notebook is inside a try: an exception ends the     *)
(* run with that exception, and the cells below are not run.               *)
(***************************************************************************)
OnFailureTranslated(exc) == [pc |-> "failed", error |-> "RuntimeError"]
OnFailure(exc) == [pc |-> "failed", error |-> exc]

Fails(exc) ==
    /\ raised' = exc
    /\ pc' = OnFailure(exc).pc
    /\ error' = OnFailure(exc).error

\* statement c starts: a name it reads and no cell has bound is a NameError
Bound(c) == Uses(c) \subseteq defined

Runs(c) ==
    /\ pc = c
    /\ executed' = Append(executed, c)

Completes(c, after) ==
    /\ defined' = defined \cup Defs(c)
    /\ pc' = after
    /\ UNCHANGED <<raised, error>>

NameError ==
    /\ Fails("NameError")
    /\ UNCHANGED <<defined, data_vars, call>>

NoCall == [fn |-> "none", state |-> "idle", arg |-> <<>>, ret |-> <<>>]

Init ==
    /\ pc = Cells[1]
    /\ executed = <<>>
    /\ defined = {}
    /\ raised = "none"
    /\ error = "none"
    /\ ag_news_train = <<>>
    /\ ag_news_test = <<>>
    /\ ag_news = [train |-> <<>>, test |-> <<>>]
    /\ id2label = <<>>
    /\ label2id = <<>>
    /\ model = [num_labels |-> 0, id2label |-> <<>>, label2id |-> <<>>, weights |-> 0]
    /\ tokenized_ag_news = [train |-> <<>>, test |-> <<>>]
    /\ trainer = [train_dataset |-> "", eval_dataset |-> "", epoch |-> 0, seen |-> {},
                  global_step |-> 0, phase |-> "", log_history |-> <<>>,
                  checkpoints |-> {}, best_metric |-> <<>>, best_model_checkpoint |-> <<>>]
    /\ batch = [kind |-> "", split |-> "", rows |-> <<>>, input_ids |-> <<>>,
                attention_mask |-> <<>>, labels |-> <<>>]
    /\ call = NoCall

(***************************************************************************)
(* Cells 1 to 8.                                                           *)
(***************************************************************************)
Imports ==
    /\ Runs("imports")
    /\ IF Bound("imports")
       THEN Completes("imports", NextCell("imports")) /\ UNCHANGED <<data_vars, call>>
       ELSE NameError

\* load_dataset(..., split="train[:10%]") and load_dataset(..., split="test")
LoadData ==
    /\ Runs("load_data")
    /\ IF Bound("load_data")
       THEN /\ \E tr \in SeqsUpTo(TrainExamples, MaxTrain), te \in SeqsUpTo(TestExamples, MaxTest) :
                 /\ ag_news_train' = tr
                 /\ ag_news_test' = te
            /\ Completes("load_data", NextCell("load_data"))
            /\ UNCHANGED <<ag_news, id2label, label2id, model, tokenized_ag_news, trainer,
                           batch, call>>
       ELSE NameError

MakeDatasetDict ==
    /\ Runs("dataset_dict")
    /\ IF Bound("dataset_dict")
       THEN /\ ag_news' = [train |-> ag_news_train, test |-> ag_news_test]
            /\ Completes("dataset_dict", NextCell("dataset_dict"))
            /\ UNCHANGED <<ag_news_train, ag_news_test, id2label, label2id, model,
                           tokenized_ag_news, trainer, batch, call>>
       ELSE NameError

DefineLabels ==
    /\ Runs("labels")
    /\ IF Bound("labels")
       THEN /\ id2label' = Id2LabelLiteral
            /\ label2id' = InvertDict(Id2LabelLiteral)
            /\ Completes("labels", NextCell("labels"))
            /\ UNCHANGED <<ag_news_train, ag_news_test, ag_news, model, tokenized_ag_news,
                           trainer, batch, call>>
       ELSE NameError

\* from_pretrained(..., num_labels=4, id2label=id2label, label2id=label2id)
ModelConfigDefaultLabels(i2l, l2i) ==
    [num_labels |-> 2, id2label |-> i2l, label2id |-> l2i, weights |-> 0]
ModelConfig(i2l, l2i) ==
    [num_labels |-> num_labels, id2label |-> i2l, label2id |-> l2i, weights |-> 0]

LoadModel ==
    /\ Runs("load_model")
    /\ IF Bound("load_model")
       THEN /\ model' = ModelConfig(id2label, label2id)
            /\ Completes("load_model", NextCell("load_model"))
            /\ UNCHANGED <<ag_news_train, ag_news_test, ag_news, id2label, label2id,
                           tokenized_ag_news, trainer, batch, call>>
       ELSE NameError

\* Dataset.map(preprocess_function, batched=True, batch_size=4): the function is
\* given the rows in chunks of batch_size and its columns are added to the rows
ChunkStart(i) == ((i - 1) \div map_batch_size) * map_batch_size + 1

Chunk(ds, i) == SubSeq(ds, ChunkStart(i), Min(ChunkStart(i) + map_batch_size - 1, Len(ds)))

Column(rows, name) == [j \in 1..Len(rows) |-> rows[j][name]]

DatasetMap(ds) ==
    [i \in 1..Len(ds) |->
        LET out == preprocess_function([text  |-> Column(Chunk(ds, i), "text"),
                                        label |-> Column(Chunk(ds, i), "label")])
            j   == i - ChunkStart(i) + 1
        IN  [text |-> ds[i].text, label |-> ds[i].label,
             input_ids |-> out.input_ids[j], attention_mask |-> out.attention_mask[j]]]

Tokenize ==
    /\ Runs("tokenize")
    /\ IF Bound("tokenize")
       THEN /\ tokenized_ag_news' = [train |-> DatasetMap(ag_news.train),
                                     test  |-> DatasetMap(ag_news.test)]
            /\ Completes("tokenize", NextCell("tokenize"))
            /\ UNCHANGED <<ag_news_train, ag_news_test, ag_news, id2label, label2id, model,
                           trainer, batch, call>>
       ELSE NameError

SetMetric ==
    /\ Runs("metric")
    /\ IF Bound("metric")
       THEN Completes("metric", NextCell("metric")) /\ UNCHANGED <<data_vars, call>>
       ELSE NameError

DefineCollator ==
    /\ Runs("collator")
    /\ IF Bound("collator")
       THEN Completes("collator", NextCell("collator")) /\ UNCHANGED <<data_vars, call>>
       ELSE NameError

(***************************************************************************)
(* Cell 9: training_args, the Trainer and trainer.train().                 *)
(* metric_for_best_model and greater_is_better are not given: with         *)
(* load_best_model_at_end they are "loss" and False.  save_total_limit is  *)
(* not given: no checkpoint is deleted.                                    *)
(***************************************************************************)
training_args ==
    [num_train_epochs |-> num_train_epochs,
     per_device_train_batch_size |-> BatchSize,
     per_device_eval_batch_size |-> BatchSize,
     eval_strategy |-> "epoch",
     save_strategy |-> "epoch",
     load_best_model_at_end |-> TRUE,
     metric_for_best_model |-> "loss",
     greater_is_better |-> FALSE]

TrainerArgs ==
    [train_dataset |-> "train", eval_dataset |-> "test"]

BuildTrainer ==
    /\ Runs("trainer")
    /\ IF Bound("trainer")
       THEN /\ trainer' = [trainer EXCEPT !.train_dataset = TrainerArgs.train_dataset,
                                          !.eval_dataset = TrainerArgs.eval_dataset]
            /\ Completes("trainer", NextCell("trainer"))
            /\ UNCHANGED <<ag_news_train, ag_news_test, ag_news, id2label, label2id, model,
                           tokenized_ag_news, batch, call>>
       ELSE NameError

\* trainer.train() is entered
StartTrain ==
    /\ Runs("train")
    /\ IF Bound("train")
       THEN /\ trainer' = [trainer EXCEPT !.epoch = 1, !.phase = "step", !.seen = {}]
            /\ Completes("train", "training")
            /\ UNCHANGED <<ag_news_train, ag_news_test, ag_news, id2label, label2id, model,
                           tokenized_ag_news, batch, call>>
       ELSE NameError

\* the columns the model takes, of the rows idx (a sequence of row numbers)
Features(ds, idx) ==
    [k \in 1..Len(idx) |-> [input_ids      |-> ds[idx[k]].input_ids,
                            attention_mask |-> ds[idx[k]].attention_mask,
                            label          |-> ds[idx[k]].label]]

Ascending(S) ==
    CHOOSE q \in [1..Cardinality(S) -> S] :
        \A a, b \in 1..Cardinality(S) : a < b => q[a] < q[b]

Collated(kind, split, idx) ==
    LET c == data_collator(Features(tokenized_ag_news[split], idx))
    IN  [kind |-> kind, split |-> split, rows |-> idx, input_ids |-> c.input_ids,
         attention_mask |-> c.attention_mask, labels |-> c.labels]

\* one optimizer step, on a batch the sampler draws from the rows the epoch has left
TrainStep ==
    /\ pc = "training"
    /\ trainer.phase = "step"
    /\ LET n      == Len(tokenized_ag_news[trainer.train_dataset])
           unseen == (1..n) \ trainer.seen
       IN  \E rows \in SUBSET unseen :
             /\ Cardinality(rows) =
                    Min(training_args.per_device_train_batch_size, Cardinality(unseen))
             /\ batch' = Collated("training", trainer.train_dataset, Ascending(rows))
             /\ model' = [model EXCEPT !.weights = trainer.global_step + 1]
             /\ trainer' = [trainer EXCEPT
                    !.global_step = trainer.global_step + 1,
                    !.seen = trainer.seen \cup rows,
                    !.phase = IF trainer.seen \cup rows = 1..n /\ training_args.eval_strategy = "epoch"
                              THEN "evaluate" ELSE "step"]
    /\ UNCHANGED <<pc, executed, defined, raised, error, ag_news_train, ag_news_test,
                   ag_news, id2label, label2id, tokenized_ag_news, call>>

\* the value the best checkpoint is chosen by, as a fraction, and its order
MetricForBestModel(metrics) ==
    IF training_args.metric_for_best_model = "loss"
    THEN <<metrics.eval_loss, 1>> ELSE metrics.eval_f1

Less(a, b) == a[1] * b[2] < b[1] * a[2]

IsBetter(a, b) == IF training_args.greater_is_better THEN Less(b, a) ELSE Less(a, b)

\* the evaluation at the end of an epoch: the rows of the evaluation split in
\* order, in batches (batch keeps the last one), then compute_metrics once on
\* all the scores and labels; an exception of compute_metrics ends train()
Evaluate ==
    /\ pc = "training"
    /\ trainer.phase = "evaluate"
    /\ LET ds     == tokenized_ag_news[trainer.eval_dataset]
           n      == Len(ds)
           size   == training_args.per_device_eval_batch_size
           first  == ((n - 1) \div size) * size + 1
           labels == Column(ds, "label")
       IN  \E scores \in [1..n -> RunLogitRows], loss \in Losses :
             LET m       == compute_metrics(<<scores, labels>>)
                 metrics == [epoch |-> trainer.epoch, step |-> trainer.global_step,
                             eval_loss |-> loss, eval_f1 |-> m.f1]
                 best    == \/ trainer.best_metric = <<>>
                            \/ IsBetter(MetricForBestModel(metrics), trainer.best_metric[1])
             IN  /\ batch' = Collated("evaluation", trainer.eval_dataset,
                                      [k \in 1..(n - first + 1) |-> first + k - 1])
                 /\ IF m.exc = "none"
                    THEN /\ trainer' = [trainer EXCEPT
                                !.log_history = Append(trainer.log_history, metrics),
                                !.best_metric = IF best THEN <<MetricForBestModel(metrics)>>
                                                ELSE trainer.best_metric,
                                !.best_model_checkpoint =
                                    IF best THEN <<trainer.global_step>>
                                    ELSE trainer.best_model_checkpoint,
                                !.phase = "save"]
                         /\ UNCHANGED <<pc, raised, error>>
                    ELSE /\ Fails(m.exc)
                         /\ UNCHANGED trainer
    /\ UNCHANGED <<executed, defined, ag_news_train, ag_news_test, ag_news, id2label,
                   label2id, model, tokenized_ag_news, call>>

\* the checkpoints the output directory holds after a save
KeptOnlyBest(checkpoints) ==
    {c \in checkpoints : <<c.step>> = trainer.best_model_checkpoint}
KeptCheckpoints(checkpoints) == checkpoints

\* the save at the end of an epoch, after its evaluation
SaveCheckpoint ==
    /\ pc = "training"
    /\ trainer.phase = "save"
    /\ LET saved == [step |-> trainer.global_step, epoch |-> trainer.epoch,
                     weights |-> model.weights]
       IN  trainer' = [trainer EXCEPT
               !.checkpoints = KeptCheckpoints(trainer.checkpoints \cup {saved}),
               !.epoch = IF trainer.epoch < training_args.num_train_epochs
                         THEN trainer.epoch + 1 ELSE trainer.epoch,
               !.seen = {},
               !.phase = IF trainer.epoch < training_args.num_train_epochs
                         THEN "step" ELSE "end"]
    /\ UNCHANGED <<pc, executed, defined, raised, error, ag_news_train, ag_news_test,
                   ag_news, id2label, label2id, model, tokenized_ag_news, batch, call>>

\* the end of train(): the weights of best_model_checkpoint are loaded
EndTrain ==
    /\ pc = "training"
    /\ trainer.phase = "end"
    /\ model' = IF training_args.load_best_model_at_end /\ trainer.best_model_checkpoint # <<>>
                THEN [model EXCEPT !.weights =
                        (CHOOSE c \in trainer.checkpoints :
                            c.step = trainer.best_model_checkpoint[1]).weights]
                ELSE model
    /\ trainer' = [trainer EXCEPT !.phase = "done"]
    /\ pc' = "done"
    /\ UNCHANGED <<executed, defined, raised, error, ag_news_train, ag_news_test, ag_news,
                   id2label, label2id, tokenized_ag_news, batch, call>>

\* a library call of the statement fails: no network, no memory
LibraryCalls ==
    {"load_data", "load_model", "tokenize", "metric", "trainer", "training"}

LibraryFails ==
    /\ pc \in LibraryCalls
    /\ pc # "training" => Bound(pc)
    /\ executed' = IF pc = "training" THEN executed ELSE Append(executed, pc)
    /\ \E exc \in LibraryErrors : Fails(exc)
    /\ UNCHANGED <<defined, data_vars, call>>

Next ==
    \/ Imports
    \/ LoadData
    \/ MakeDatasetDict
    \/ DefineLabels
    \/ LoadModel
    \/ Tokenize
    \/ SetMetric
    \/ DefineCollator
    \/ BuildTrainer
    \/ StartTrain
    \/ TrainStep
    \/ Evaluate
    \/ SaveCheckpoint
    \/ EndTrain
    \/ LibraryFails

Spec == Init /\ [][Next]_vars

(***************************************************************************)
(* Direct calls of the notebook's functions, on every input of the bounds: *)
(* preprocess_function on a batch of texts, the collator on the features   *)
(* preprocess_function made of a batch, compute_metrics on scores and      *)
(* labels of the four classes.                                             *)
(***************************************************************************)
FeaturesOf(texts) ==
    LET out == preprocess_function([text |-> texts])
    IN  [i \in 1..Len(texts) |-> [input_ids      |-> out.input_ids[i],
                                  attention_mask |-> out.attention_mask[i],
                                  label          |-> 0]]

InitCalls ==
    /\ pc = Cells[1]
    /\ executed = <<>>
    /\ defined = {}
    /\ raised = "none"
    /\ error = "none"
    /\ ag_news_train = <<>>
    /\ ag_news_test = <<>>
    /\ ag_news = [train |-> <<>>, test |-> <<>>]
    /\ id2label = <<>>
    /\ label2id = <<>>
    /\ model = [num_labels |-> 0, id2label |-> <<>>, label2id |-> <<>>, weights |-> 0]
    /\ tokenized_ag_news = [train |-> <<>>, test |-> <<>>]
    /\ trainer = [train_dataset |-> "", eval_dataset |-> "", epoch |-> 0, seen |-> {},
                  global_step |-> 0, phase |-> "", log_history |-> <<>>,
                  checkpoints |-> {}, best_metric |-> <<>>, best_model_checkpoint |-> <<>>]
    /\ batch = [kind |-> "", split |-> "", rows |-> <<>>, input_ids |-> <<>>,
                attention_mask |-> <<>>, labels |-> <<>>]
    /\ \/ \E texts \in SeqsUpTo(Texts, MaxBatch) :
            call = [fn |-> "preprocess_function", state |-> "called",
                    arg |-> [text |-> texts], ret |-> <<>>]
       \/ \E texts \in SeqsUpTo(Texts, MaxBatch) :
            call = [fn |-> "data_collator", state |-> "called",
                    arg |-> FeaturesOf(texts), ret |-> <<>>]
       \/ \E n \in 1..MaxEval :
            \E scores \in [1..n -> LogitRows], labels \in [1..n -> 0..(num_labels - 1)] :
                call = [fn |-> "compute_metrics", state |-> "called",
                        arg |-> <<scores, labels>>, ret |-> <<>>]

CallPreprocess ==
    /\ call.fn = "preprocess_function"
    /\ call.state = "called"
    /\ call' = [call EXCEPT !.state = "returned", !.ret = preprocess_function(call.arg)]
    /\ UNCHANGED <<pc, executed, defined, raised, error, data_vars>>

CallCollator ==
    /\ call.fn = "data_collator"
    /\ call.state = "called"
    /\ call' = [call EXCEPT !.state = "returned", !.ret = data_collator(call.arg)]
    /\ UNCHANGED <<pc, executed, defined, raised, error, data_vars>>

\* a call that raises does not return: state "raised", the exception in raised
CallComputeMetrics ==
    /\ call.fn = "compute_metrics"
    /\ call.state = "called"
    /\ LET m == compute_metrics(call.arg)
       IN  IF m.exc = "none"
           THEN /\ call' = [call EXCEPT !.state = "returned", !.ret = [f1 |-> m.f1]]
                /\ UNCHANGED raised
           ELSE /\ call' = [call EXCEPT !.state = "raised"]
                /\ raised' = m.exc
    /\ UNCHANGED <<pc, executed, defined, error, data_vars>>

NextCalls ==
    \/ CallPreprocess
    \/ CallCollator
    \/ CallComputeMetrics

SpecCalls == InitCalls /\ [][NextCalls]_vars

(***************************************************************************)
(* The claims.                                                             *)
(***************************************************************************)
TopicNames == {"World", "Sports", "Business", "Sci/Tech"}

IsPrefix(p, q) == Len(p) <= Len(q) /\ SubSeq(q, 1, Len(p)) = p

\* C1: once cell 4 has run, id2label[label2id[n]] = n for each of the four topic
\* names n and label2id[id2label[i]] = i for each id i of 0..3: the two maps are
\* inverse bijections between the four ids and the four names.
C1_LabelRoundTrip ==
    "label2id" \in defined =>
        /\ DOMAIN id2label = 0..3
        /\ DOMAIN label2id = TopicNames
        /\ \A n \in TopicNames :
             n \in DOMAIN label2id /\ label2id[n] \in DOMAIN id2label
                /\ id2label[label2id[n]] = n
        /\ \A i \in 0..3 :
             i \in DOMAIN id2label /\ id2label[i] \in DOMAIN label2id
                /\ label2id[id2label[i]] = i

C1_Witness == "label2id" \in defined /\ label2id["Business"] = 2 /\ id2label[2] = "Business"

\* C2: once the model is built, its num_labels equals the number of entries of
\* its id2label and of its label2id, the ids are 0=World, 1=Sports, 2=Business,
\* 3=Sci/Tech, every class index 0..num_labels-1 has a name and every name an
\* index below num_labels.
C2_HeadSizedToLabels ==
    "model" \in defined =>
        /\ model.num_labels = Cardinality(DOMAIN model.id2label)
        /\ model.num_labels = Cardinality(DOMAIN model.label2id)
        /\ model.id2label[0] = "World" /\ model.id2label[1] = "Sports"
        /\ model.id2label[2] = "Business" /\ model.id2label[3] = "Sci/Tech"
        /\ \A c \in 0..(model.num_labels - 1) : c \in DOMAIN model.id2label
        /\ \A n \in DOMAIN model.label2id : model.label2id[n] \in 0..(model.num_labels - 1)

C2_Witness == "model" \in defined /\ model.num_labels = 4 /\ pc = "tokenize"

\* C3: a call of compute_metrics on per-class scores and reference labels of the
\* four classes returns an F1 value, between 0 and 1; it does not raise when
\* the references hold more than two distinct classes.
C3_ComputeMetricsReturns ==
    (call.fn = "compute_metrics" /\ call.state # "called"
        /\ Cardinality(Range(call.arg[2])) > 2) =>
        /\ call.state = "returned"
        /\ 0 <= call.ret.f1[1] /\ call.ret.f1[1] <= call.ret.f1[2]

ScoreOf(c) ==
    MetricForBestModel(CHOOSE m \in Range(trainer.log_history) : m.epoch = c.epoch)

BestKept ==
    \E b \in trainer.checkpoints :
        /\ <<b.step>> = trainer.best_model_checkpoint
        /\ \A c \in trainer.checkpoints : ~IsBetter(ScoreOf(c), ScoreOf(b))

BestF1Kept ==
    \E b \in trainer.checkpoints :
        \E mb \in Range(trainer.log_history) :
            /\ mb.epoch = b.epoch
            /\ \A m \in Range(trainer.log_history) : ~Less(mb.eval_f1, m.eval_f1)

C6_OncePerEpoch ==
    /\ pc = "training" =>
         /\ Len(trainer.log_history) =
                IF trainer.phase \in {"step", "evaluate"} THEN trainer.epoch - 1
                ELSE IF trainer.phase = "save" THEN trainer.epoch ELSE num_train_epochs
         /\ Cardinality(trainer.checkpoints) =
                IF trainer.phase \in {"step", "evaluate", "save"} THEN trainer.epoch - 1
                ELSE num_train_epochs
    /\ \A c \in trainer.checkpoints :
         \E m \in Range(trainer.log_history) : m.epoch = c.epoch /\ m.step = c.step
    /\ ("train" \in Range(executed) /\ pc \in {"done", "failed"}
            /\ raised \notin LibraryErrors) =>
         /\ pc = "done"
         /\ Len(trainer.log_history) = 2
         /\ Cardinality(trainer.checkpoints) = 2

\* what the tokenizer gives for a text when nothing is cut
Untruncated(text) == AddSpecialTokens(Vocab(text))

Front(ids) == SubSeq(ids, 1, Len(ids) - 1)

\* C7: preprocess_function returns, for every text of the batch, a token-id
\* sequence no longer than the model's maximum input length; a longer
\* tokenization is cut to a prefix (what is lost is its trailing content, the
\* closing token stays), a text that fits comes back whole, nothing raises and
\* nothing is padded.
C7_TruncatedNotPadded ==
    (call.fn = "preprocess_function" /\ call.state # "called") =>
        /\ call.state = "returned"
        /\ raised = "none"
        /\ Len(call.ret.input_ids) = Len(call.arg.text)
        /\ \A i \in 1..Len(call.arg.text) :
             LET ids  == call.ret.input_ids[i]
                 full == Untruncated(call.arg.text[i])
             IN  /\ Len(ids) <= ModelMaxLength
                 /\ Len(ids) = Min(Len(full), ModelMaxLength)
                 /\ IsPrefix(Front(ids), full)
                 /\ ids[Len(ids)] = SEP_ID
                 /\ Len(full) <= ModelMaxLength => ids = full
                 /\ PAD_ID \notin Range(ids)
                 /\ call.ret.attention_mask[i] = [k \in 1..Len(ids) |-> 1]

C7_Witness ==
    /\ call.fn = "preprocess_function"
    /\ call.state = "returned"
    /\ Len(call.arg.text) = 2
    /\ Len(Untruncated(call.arg.text[1])) > ModelMaxLength
    /\ call.arg.text[1][1] # call.arg.text[1][Len(call.arg.text[1])]
    /\ Len(call.ret.input_ids[2]) < Len(call.ret.input_ids[1])

\* C8: the collator gives all sequences of a batch one length, the length of
\* the longest sequence of the batch (at most the truncation length), and each
\* sequence keeps its token ids as the prefix of its padded row.
C8_PaddedToLongest ==
    (call.fn = "data_collator" /\ call.state # "called") =>
        /\ call.state = "returned"
        /\ Len(call.ret.input_ids) = Len(call.arg)
        /\ \A i \in 1..Len(call.arg) :
             /\ \A j \in 1..Len(call.arg) :
                  /\ Len(call.ret.input_ids[i]) = Len(call.ret.input_ids[j])
                  /\ Len(call.arg[j].input_ids) <= Len(call.ret.input_ids[i])
             /\ \E j \in 1..Len(call.arg) :
                  Len(call.ret.input_ids[i]) = Len(call.arg[j].input_ids)
             /\ Len(call.ret.input_ids[i]) <= ModelMaxLength
             /\ IsPrefix(call.arg[i].input_ids, call.ret.input_ids[i])

C8_Witness ==
    /\ call.fn = "data_collator"
    /\ call.state = "returned"
    /\ Len(call.arg) = 2
    /\ Len(call.arg[1].input_ids) < Len(call.arg[2].input_ids)
    /\ Len(call.ret.input_ids[1]) = Len(call.arg[2].input_ids)
    /\ Len(call.ret.input_ids[1]) < ModelMaxLength

\* C9: a failure of a step ends the run with the library's exception as it was
\* raised; the failed step is started once and no step runs after it.
C9_FailureSurfaces ==
    /\ (raised = "none") = (error = "none")
    /\ raised # "none" => error = raised /\ pc = "failed"
    /\ \A i, j \in 1..Len(executed) : executed[i] = executed[j] => i = j
    /\ pc = "failed" => ~ENABLED Next

C9_Witness ==
    /\ pc = "failed"
    /\ error = "OutOfMemoryError"
    /\ trainer.epoch = 2
    /\ trainer.phase = "evaluate"

Precedes(a, b) ==
    \A j \in 1..Len(executed) :
        executed[j] = b => \E i \in 1..(j - 1) : executed[i] = a

\* C10: no step reads a name no earlier step has bound: the label maps are made
\* before the model, the tokenizer before preprocess_function is applied and
\* before the collator, the tokenized splits, the collator, f1 and
\* compute_metrics before the Trainer, train() is the last step; the Trainer
\* trains on rows of the tokenized "train" split only and evaluates on the
\* tokenized "test" split only.
C10_DefinedBeforeUse ==
    /\ raised # "NameError"
    /\ Precedes("labels", "load_model")
    /\ Precedes("load_model", "tokenize")
    /\ Precedes("load_model", "collator")
    /\ Precedes("tokenize", "trainer")
    /\ Precedes("metric", "trainer")
    /\ Precedes("collator", "trainer")
    /\ Precedes("trainer", "train")
    /\ pc \in {"training", "done"} => executed[Len(executed)] = "train"
    /\ batch.kind = "training" => batch.split = "train"
    /\ batch.kind = "evaluation" => batch.split = "test"
    /\ batch.kind # "" =>
         \A k \in 1..Len(batch.rows) :
            /\ IsPrefix(tokenized_ag_news[batch.split][batch.rows[k]].input_ids,
                        batch.input_ids[k])
            /\ batch.labels[k] = ag_news[batch.split][batch.rows[k]].label

C10_Witness ==
    /\ pc = "done"
    /\ batch.kind = "evaluation"
    /\ trainer.global_step > num_train_epochs

====
